---------------------------- MODULE Spec2Model ----------------------------
(***************************************************************************)
(* backup-rs: one-way synchronisation of a local directory tree into an   *)
(* S3 bucket (src/src/main.rs, src/src/s3.rs).                             *)
(*                                                                         *)
(* Strings are sequences of one-character strings.  A path key            *)
(* (Vec<String>) is a sequence of such strings.                            *)
(***************************************************************************)
EXTENDS Naturals, Sequences, FiniteSets, TLC

VARIABLES
    \* ---- the environment -------------------------------------------------
    os,             \* "unix" | "windows": decides std::path::MAIN_SEPARATOR
    tree,           \* the local directory tree: node -> name, kind, children
    bucket,         \* the keys of the objects in the bucket
    \* ---- main() ----------------------------------------------------------
    pc,             \* position in main()
    outcome,        \* how the process ended
    run,            \* number of the current execution of the program
    \* ---- fetch_existing_objects -----------------------------------------
    files_by_path,  \* HashSet<Vec<String>>: the index (existing_files)
    next_token,     \* Option<String>: << >> is None, <<t>> is Some(t)
    \* ---- traverse_directories -------------------------------------------
    stack,          \* the recursion: one frame per directory being iterated
    cur,            \* the call of traverse_directories now executing, or << >>
    \* ---- history (observations, never read by the program) --------------
    request,        \* the list request in flight: << >> or <<its token>>
    last_page,      \* truncation flag and token of the page answered last
    list_count,     \* number of list requests issued in this run
    truncated_pages,\* number of pages answered with is_truncated = true
    listed,         \* the keys of all objects on the pages answered so far
    puts,           \* the put requests issued in this run, in order
    skipped,        \* nodes skipped as already existing, in order
    reads,          \* nodes whose contents the program tried to open
    visited,        \* nodes traverse_directories was called on, in order
    faults,         \* the failures of this run: <<kind, node>> (node 0: none)
    prev,           \* the previous run: its outcome and the bucket it left
    \* ---- the codec harness ----------------------------------------------
    raw,            \* an input string of split_filename
    other,          \* a second input string
    key,            \* split_filename(raw) once computed
    other_key       \* split_filename(other) once computed

vars == << os, tree, bucket, pc, outcome, run, files_by_path, next_token,
           stack, cur, request, last_page, list_count, truncated_pages,
           listed, puts, skipped, reads, visited,
           faults, prev, raw, other, key, other_key >>

syncVars  == << os, tree, bucket, outcome, run, files_by_path, next_token,
                stack, cur, request, last_page, list_count, truncated_pages,
           listed, puts, skipped, reads,
                visited, faults, prev >>
codecVars == << raw, other, key, other_key >>
envVars   == << os, tree >>
indexVars == << files_by_path, next_token >>
walkVars  == << stack, cur >>
listHist  == << request, last_page, list_count, truncated_pages, listed >>
walkHist  == << puts, skipped, reads, visited >>


-----------------------------------------------------------------------------
(* Bounds *)

\* longest input string of the codec harness
MaxLen == 3

-----------------------------------------------------------------------------
(* PathCodec: split_filename and the key sent by upload_file *)

\* the characters the model's strings are made of; "a" and "A" differ in case only
Letters  == {"a", "A", "b"}
Alphabet == Letters \cup {"/", "\\"}

\* a split that knows the forward slash only
IsSlashOnly(c) == c = "/"

\* the pattern &['/', '\\'][..] of split_filename
IsSeparator(c) == c \in {"/", "\\"}

RECURSIVE SplitFrom(_, _, _)
\* str::split: a separator always closes the current piece, empty or not, and
\* the end of the string closes the last one
SplitFrom(s, piece, pieces) ==
    IF s = << >> THEN Append(pieces, piece)
    ELSE IF IsSeparator(Head(s))
         THEN SplitFrom(Tail(s), << >>, Append(pieces, piece))
         ELSE SplitFrom(Tail(s), Append(piece, Head(s)), pieces)

split_filename(filename) == SplitFrom(filename, << >>, << >>)

\* key.replace("\\", "/") of upload_file
ReplaceBackslash(s) == [i \in 1..Len(s) |-> IF s[i] = "\\" THEN "/" ELSE s[i]]


-----------------------------------------------------------------------------
(* Bounds of the sync run *)

\* objects in the bucket before the first run
MaxObjects == 2
\* objects on one page of the listing
MaxPageSize == 1
\* list requests the model follows in one run (the code has no cap)
MaxListRequests == 3
\* executions of the program, one after the other, on the same tree and bucket
MaxRuns == 2

-----------------------------------------------------------------------------
(* The environment: the local tree and the bucket *)

Range(f) == {f[i] : i \in DOMAIN f}

\* std::path::MAIN_SEPARATOR
MainSeparator(o) == IF o = "windows" THEN "\\" ELSE "/"
\* std::path::is_separator
IsPathSeparator(o, c) == IF o = "windows" THEN c \in {"/", "\\"} ELSE c = "/"

\* the directory given on the command line, after expand_path
RootPath == <<"r">>
Root == 1

\* the tree of spec section 8: a/x and a/b/y
ExampleTree ==
    << [name |-> RootPath, kind |-> "dir",  children |-> {2}],
       [name |-> <<"a">>,  kind |-> "dir",  children |-> {3, 4}],
       [name |-> <<"x">>,  kind |-> "file", children |-> {}],
       [name |-> <<"b">>,  kind |-> "dir",  children |-> {5}],
       [name |-> <<"y">>,  kind |-> "file", children |-> {}] >>

\* a Unix tree with a file whose name holds a backslash: a\x beside a/x
CollidingTree ==
    << [name |-> RootPath,            kind |-> "dir",  children |-> {2, 3}],
       [name |-> <<"a", "\\", "x">>, kind |-> "file", children |-> {}],
       [name |-> <<"a">>,            kind |-> "dir",  children |-> {4}],
       [name |-> <<"x">>,            kind |-> "file", children |-> {}] >>

\* the path on the command line names a regular file
FileTree ==
    << [name |-> RootPath, kind |-> "file", children |-> {}] >>

\* the trees each operating system can hold
Environments ==
    {<<"unix", ExampleTree>>, <<"windows", ExampleTree>>,
     <<"unix", CollidingTree>>,
     <<"unix", FileTree>>, <<"windows", FileTree>>}

\* keys objects of the bucket may have before the first run
StoreKeys ==
    { <<"a", "/", "x">>, <<"a", "\\", "x">>, <<"a", "/", "/", "x">>,
      <<"a", "/", "b", "/", "y">> }

\* the buckets of at most n objects
Buckets(n) == {b \in SUBSET StoreKeys : Cardinality(b) <= n}

\* every key an object can have in the model, in the order ListObjectsV2
\* lists keys (byte order: "/" before "\\" before the letters)
ListingOrder ==
    << << >>,
       <<"a", "/", "/", "x">>,
       <<"a", "/", "b", "/", "y">>,
       <<"a", "/", "x">>,
       <<"a", "\\", "x">> >>

\* the bucket's keys as ListObjectsV2 lists them
Listing(b) == SelectSeq(ListingOrder, LAMBDA k : k \in b)

NoCall == [node |-> 0, path |-> << >>, phase |-> "idle", stripped |-> << >>]
NoPage == [is_truncated |-> FALSE, next_continuation_token |-> << >>]
NoRun  == [clean |-> FALSE, put_count |-> 0, bucket |-> {}]

CodecIdle ==
    /\ raw = << >> /\ other = << >>
    /\ key = << >> /\ other_key = << >>

\* the state in which an execution of the program starts
ProcessStart ==
    /\ pc = "new_client" /\ outcome = "running"
    /\ files_by_path = {} /\ next_token = << >>
    /\ stack = << >> /\ cur = NoCall
    /\ request = << >> /\ last_page = NoPage
    /\ list_count = 0 /\ truncated_pages = 0 /\ listed = {}
    /\ puts = << >> /\ skipped = << >> /\ reads = {} /\ visited = << >>
    /\ faults = {}

Init ==
    /\ \E env \in Environments : os = env[1] /\ tree = env[2]
    /\ bucket \in Buckets(MaxObjects)
    /\ run = 1 /\ prev = NoRun
    /\ ProcessStart
    /\ CodecIdle

-----------------------------------------------------------------------------
(* main: the client, the listing, the root path *)

\* the process ends: "synced" (All directories synced), "failed" (Failed to
\* sync directories, logged by main) or "panicked"
Ends(how) == pc' = "done" /\ outcome' = how

\* S3Client::new accepts the storage class and the encryption
NewClientOk ==
    /\ pc = "new_client"
    /\ pc' = "fetch"
    /\ UNCHANGED << envVars, bucket, outcome, run, indexVars, walkVars,
                    listHist, walkHist, faults, prev, codecVars >>

\* S3Client::new rejects the storage class or the encryption: main panics
NewClientFails ==
    /\ pc = "new_client"
    /\ Ends("panicked")
    /\ faults' = faults \cup {<<"client", 0>>}
    /\ UNCHANGED << envVars, bucket, run, indexVars, walkVars, listHist,
                    walkHist, prev, codecVars >>

\* the pages ListObjectsV2 may answer to a request carrying token tok: the
\* objects from the token's offset on, at most MaxPageSize of them; the store
\* chooses the truncation flag and whether it hands out a token
StorePages(b, tok) ==
    LET offset == IF tok = << >> THEN 0 ELSE tok[1]
        all    == Listing(b)
        most   == IF Len(all) - offset < MaxPageSize THEN Len(all) - offset
                  ELSE MaxPageSize
    IN  UNION { { [contents |-> SubSeq(all, offset + 1, offset + n),
                   is_truncated |-> t,
                   next_continuation_token |-> nt] :
                    t \in BOOLEAN, nt \in {<< >>, <<offset + n>>} } :
                n \in 0..most }

\* a loop that stops when the page hands out no token
BreaksWithoutToken(response) == response.next_continuation_token = << >>

\* `if !response.is_truncated() { break; }`
LoopBreaks(response) == ~response.is_truncated

\* a loop body that forgets the page's objects
KeepsIndex(index, response) == index

\* a loop body that starts the index afresh with every page
ReplacesIndex(index, response) ==
    {split_filename(k) : k \in Range(response.contents)}

\* the for loop over response.contents(): every key is split and inserted
InsertContents(index, response) ==
    index \cup {split_filename(k) : k \in Range(response.contents)}

\* a request that never carries a token
SendListRequestFromStart ==
    /\ pc = "fetch" /\ request = << >>
    /\ list_count < MaxListRequests
    /\ request' = << << >> >>
    /\ list_count' = list_count + 1
    /\ UNCHANGED << envVars, bucket, pc, outcome, run, indexVars, walkVars,
                    last_page, truncated_pages, listed, walkHist, faults,
                    prev, codecVars >>

\* client.fetch_existing_objects(next_token) is sent
SendListRequest ==
    /\ pc = "fetch" /\ request = << >>
    /\ list_count < MaxListRequests
    /\ request' = <<next_token>>
    /\ list_count' = list_count + 1
    /\ UNCHANGED << envVars, bucket, pc, outcome, run, indexVars, walkVars,
                    last_page, truncated_pages, listed, walkHist, faults,
                    prev, codecVars >>

\* a failed request that only ends the loop, the pages so far being kept
ListFailsIgnored ==
    /\ pc = "fetch" /\ request # << >>
    /\ request' = << >>
    /\ pc' = "expand"
    /\ faults' = faults \cup {<<"list", 0>>}
    /\ UNCHANGED << envVars, bucket, outcome, run, indexVars, walkVars,
                    last_page, list_count, truncated_pages, listed, walkHist,
                    prev, codecVars >>

\* the request fails: `?` returns the error and main panics
ListFails ==
    /\ pc = "fetch" /\ request # << >>
    /\ request' = << >>
    /\ Ends("panicked")
    /\ faults' = faults \cup {<<"list", 0>>}
    /\ UNCHANGED << envVars, bucket, run, indexVars, walkVars, last_page,
                    list_count, truncated_pages, listed, walkHist, prev,
                    codecVars >>

\* a page arrives with an object that has no key: panic!("No filename found!")
ObjectWithoutKey ==
    /\ pc = "fetch" /\ request # << >>
    /\ request' = << >>
    /\ Ends("panicked")
    /\ faults' = faults \cup {<<"no_key", 0>>}
    /\ UNCHANGED << envVars, bucket, run, indexVars, walkVars, last_page,
                    list_count, truncated_pages, listed, walkHist, prev,
                    codecVars >>

\* a loop that gives up after its second page
ReceivePageCapped ==
    /\ pc = "fetch" /\ request # << >>
    /\ \E response \in StorePages(bucket, request[1]) :
          /\ files_by_path' = InsertContents(files_by_path, response)
          /\ next_token' = response.next_continuation_token
          /\ pc' = IF LoopBreaks(response) \/ list_count = 2 THEN "expand"
                   ELSE "fetch"
          /\ last_page' = [is_truncated |-> response.is_truncated,
                           next_continuation_token |->
                               response.next_continuation_token]
          /\ truncated_pages' =
                IF response.is_truncated THEN truncated_pages + 1
                ELSE truncated_pages
          /\ listed' = listed \cup Range(response.contents)
    /\ request' = << >>
    /\ UNCHANGED << envVars, bucket, outcome, run, walkVars, list_count,
                    walkHist, faults, prev, codecVars >>

\* a page arrives: one iteration of the loop of fetch_existing_objects
ReceivePage ==
    /\ pc = "fetch" /\ request # << >>
    /\ \E response \in StorePages(bucket, request[1]) :
          /\ files_by_path' = InsertContents(files_by_path, response)
          /\ next_token' = response.next_continuation_token
          /\ pc' = IF LoopBreaks(response) THEN "expand" ELSE "fetch"
          /\ last_page' = [is_truncated |-> response.is_truncated,
                           next_continuation_token |->
                               response.next_continuation_token]
          /\ truncated_pages' =
                IF response.is_truncated THEN truncated_pages + 1
                ELSE truncated_pages
          /\ listed' = listed \cup Range(response.contents)
    /\ request' = << >>
    /\ UNCHANGED << envVars, bucket, outcome, run, walkVars, list_count,
                    walkHist, faults, prev, codecVars >>

\* expand_path cannot parse the path argument: main panics
ExpandPathFails ==
    /\ pc = "expand"
    /\ Ends("panicked")
    /\ faults' = faults \cup {<<"root_path", 0>>}
    /\ UNCHANGED << envVars, bucket, run, indexVars, walkVars, listHist,
                    walkHist, prev, codecVars >>

\* a traversal that starts while the listing is still going on
ExpandPathOkEarly ==
    /\ pc \in {"fetch", "expand"}
    /\ pc' = "traverse"
    /\ cur' = [node |-> Root, path |-> RootPath, phase |-> "metadata",
               stripped |-> << >>]
    /\ visited' = <<Root>>
    /\ UNCHANGED << envVars, bucket, outcome, run, indexVars, stack,
                    listHist, puts, skipped, reads, faults, prev, codecVars >>

\* expand_path returns the root and main calls traverse_directories on it
ExpandPathOk ==
    /\ pc = "expand"
    /\ pc' = "traverse"
    /\ cur' = [node |-> Root, path |-> RootPath, phase |-> "metadata",
               stripped |-> << >>]
    /\ visited' = <<Root>>
    /\ UNCHANGED << envVars, bucket, outcome, run, indexVars, stack,
                    listHist, puts, skipped, reads, faults, prev, codecVars >>

-----------------------------------------------------------------------------
(* traverse_directories *)

\* PathBuf::join, as DirEntry::path builds the path of an entry
Join(o, dir, name) == dir \o <<MainSeparator(o)>> \o name

\* a unit of an OsStr that is not valid Unicode
InvalidUnit == "?"

\* OsStr::to_str returns Some: every unit of the string is valid Unicode
ValidText(s) == \A i \in 1..Len(s) : s[i] # InvalidUnit

\* Path::strip_prefix followed by to_str: the path below the prefix, or an
\* error when the path does not start with the prefix or what is below the
\* prefix is not valid Unicode
StripPrefix(o, path, prefix) ==
    IF path = prefix THEN [ok |-> TRUE, rel |-> << >>]
    ELSE IF /\ Len(path) > Len(prefix) + 1
            /\ SubSeq(path, 1, Len(prefix)) = prefix
            /\ IsPathSeparator(o, path[Len(prefix) + 1])
            /\ ValidText(SubSeq(path, Len(prefix) + 2, Len(path)))
         THEN [ok |-> TRUE, rel |-> SubSeq(path, Len(prefix) + 2, Len(path))]
         ELSE [ok |-> FALSE, rel |-> << >>]

\* the orders in which fs::read_dir may yield the entries of a directory
Orderings(S) ==
    {order \in [1..Cardinality(S) -> S] :
        \A i, j \in 1..Cardinality(S) : order[i] = order[j] => i = j}

\* a lookup that finds nothing
NeverContains(index, k) == FALSE

\* existing_files.contains(&filename_segments)
Contains(index, k) == k \in index

\* an insertion that is forgotten
InsertSkipped(index, k) == index

\* existing_files.insert(filename_segments)
Insert(index, k) == index \cup {k}

\* a key in which the backslashes are flattened away instead
PutKeyFlattened(stripped_path) ==
    [i \in 1..Len(stripped_path) |->
        IF stripped_path[i] = "\\" THEN "_" ELSE stripped_path[i]]

\* the key upload_file sends: key.replace("\\", "/")
PutKey(stripped_path) == ReplaceBackslash(stripped_path)

\* the frames below the top one
Callers(stk) == SubSeq(stk, 1, Len(stk) - 1)
Top(stk) == stk[Len(stk)]

\* the executing call returns Ok(()) to its caller: the loop of the calling
\* directory goes on, or main logs "All directories synced"
ReturnsOk(callers) ==
    /\ cur' = NoCall
    /\ stack' = callers
    /\ IF callers = << >> THEN Ends("synced")
       ELSE UNCHANGED << pc, outcome >>

\* the executing call returns Err: the calling directory's .unwrap() panics,
\* or main logs "Failed to sync directories"
ReturnsErr(callers) ==
    /\ cur' = NoCall
    /\ stack' = callers
    /\ IF callers = << >> THEN Ends("failed") ELSE Ends("panicked")

\* unreadable metadata that is returned to the caller as an error
MetadataFailsAborts ==
    /\ pc = "traverse" /\ cur.phase = "metadata"
    /\ faults' = faults \cup {<<"metadata", cur.node>>}
    /\ ReturnsErr(stack)
    /\ UNCHANGED << envVars, bucket, run, indexVars, listHist, walkHist,
                    prev, codecVars >>

\* fs::metadata(path) fails: warn and return Ok(())
MetadataFails ==
    /\ pc = "traverse" /\ cur.phase = "metadata"
    /\ faults' = faults \cup {<<"metadata", cur.node>>}
    /\ ReturnsOk(stack)
    /\ UNCHANGED << envVars, bucket, run, indexVars, listHist, walkHist,
                    prev, codecVars >>

\* fs::metadata(path) succeeds: metadata.is_file() picks the branch
MetadataOk ==
    /\ pc = "traverse" /\ cur.phase = "metadata"
    /\ cur' = [cur EXCEPT !.phase =
                  IF tree[cur.node].kind = "file" THEN "file" ELSE "dir"]
    /\ UNCHANGED << envVars, bucket, pc, outcome, run, indexVars, stack,
                    listHist, walkHist, faults, prev, codecVars >>

\* a file whose relative path cannot be computed and is sent under its whole
\* path instead
RelativePathFallsBack ==
    /\ pc = "traverse" /\ cur.phase = "file"
    /\ ~StripPrefix(os, cur.path, RootPath).ok
    /\ files_by_path' = Insert(files_by_path, split_filename(cur.path))
    /\ cur' = [cur EXCEPT !.phase = "read", !.stripped = cur.path]
    /\ faults' = faults \cup {<<"strip", cur.node>>}
    /\ UNCHANGED << envVars, bucket, pc, outcome, run, next_token, stack,
                    listHist, walkHist, prev, codecVars >>

\* path.strip_prefix(root) fails, or to_str() of its result does: error!,
\* return Ok(())
RelativePathFails ==
    /\ pc = "traverse" /\ cur.phase = "file"
    /\ ~StripPrefix(os, cur.path, RootPath).ok
    /\ faults' = faults \cup {<<"strip", cur.node>>}
    /\ ReturnsOk(stack)
    /\ UNCHANGED << envVars, bucket, run, indexVars, listHist, walkHist,
                    prev, codecVars >>

\* the file's key is in the index: "Skipping existing file", return Ok(())
SkipExisting ==
    /\ pc = "traverse" /\ cur.phase = "file"
    /\ LET stripped == StripPrefix(os, cur.path, RootPath)
       IN  /\ stripped.ok
           /\ Contains(files_by_path, split_filename(stripped.rel))
    /\ skipped' = Append(skipped, cur.node)
    /\ ReturnsOk(stack)
    /\ UNCHANGED << envVars, bucket, run, indexVars, listHist, puts, reads,
                    visited, faults, prev, codecVars >>

\* the file's key is not in the index: "Uploading new file", and the key is
\* inserted before the file is read
AcceptNew ==
    /\ pc = "traverse" /\ cur.phase = "file"
    /\ LET stripped == StripPrefix(os, cur.path, RootPath)
       IN  /\ stripped.ok
           /\ ~Contains(files_by_path, split_filename(stripped.rel))
           /\ files_by_path' = Insert(files_by_path, split_filename(stripped.rel))
           /\ cur' = [cur EXCEPT !.phase = "read", !.stripped = stripped.rel]
    /\ UNCHANGED << envVars, bucket, pc, outcome, run, next_token, stack,
                    listHist, walkHist, faults, prev, codecVars >>

\* a failed read that is returned to the caller as an error
ReadFailsAborts ==
    /\ pc = "traverse" /\ cur.phase = "read"
    /\ reads' = reads \cup {cur.node}
    /\ faults' = faults \cup {<<"read", cur.node>>}
    /\ ReturnsErr(stack)
    /\ UNCHANGED << envVars, bucket, run, indexVars, listHist, puts, skipped,
                    visited, prev, codecVars >>

\* a failed read that takes the file's key out of the index again
ReadFailsForgets ==
    /\ pc = "traverse" /\ cur.phase = "read"
    /\ reads' = reads \cup {cur.node}
    /\ faults' = faults \cup {<<"read", cur.node>>}
    /\ files_by_path' = files_by_path \ {split_filename(cur.stripped)}
    /\ ReturnsOk(stack)
    /\ UNCHANGED << envVars, bucket, run, next_token, listHist, puts,
                    skipped, visited, prev, codecVars >>

\* ByteStream::from_path fails: "Failed to read file", return Ok(())
ReadFails ==
    /\ pc = "traverse" /\ cur.phase = "read"
    /\ reads' = reads \cup {cur.node}
    /\ faults' = faults \cup {<<"read", cur.node>>}
    /\ ReturnsOk(stack)
    /\ UNCHANGED << envVars, bucket, run, indexVars, listHist, puts, skipped,
                    visited, prev, codecVars >>

\* ByteStream::from_path succeeds
ReadOk ==
    /\ pc = "traverse" /\ cur.phase = "read"
    /\ reads' = reads \cup {cur.node}
    /\ cur' = [cur EXCEPT !.phase = "put"]
    /\ UNCHANGED << envVars, bucket, pc, outcome, run, indexVars, stack,
                    listHist, puts, skipped, visited, faults, prev,
                    codecVars >>

\* the put request succeeds: the bucket holds the object, return Ok(())
UploadOk ==
    /\ pc = "traverse" /\ cur.phase = "put"
    /\ puts' = Append(puts, [node |-> cur.node, key |-> PutKey(cur.stripped),
                             ok |-> TRUE])
    /\ bucket' = bucket \cup {PutKey(cur.stripped)}
    /\ ReturnsOk(stack)
    /\ UNCHANGED << envVars, run, indexVars, listHist, skipped, reads,
                    visited, faults, prev, codecVars >>

\* the put request fails: `?` returns Err(UploadFailed) to the caller
UploadFails ==
    /\ pc = "traverse" /\ cur.phase = "put"
    /\ puts' = Append(puts, [node |-> cur.node, key |-> PutKey(cur.stripped),
                             ok |-> FALSE])
    /\ faults' = faults \cup {<<"put", cur.node>>}
    /\ ReturnsErr(stack)
    /\ UNCHANGED << envVars, bucket, run, indexVars, listHist, skipped,
                    reads, visited, prev, codecVars >>

\* an unreadable directory that is skipped with Ok(()), as an unreadable
\* metadata is
ReadDirFailsSkipped ==
    /\ pc = "traverse" /\ cur.phase = "dir"
    /\ faults' = faults \cup {<<"read_dir", cur.node>>}
    /\ ReturnsOk(stack)
    /\ UNCHANGED << envVars, bucket, run, indexVars, listHist, walkHist,
                    prev, codecVars >>

\* fs::read_dir(path).unwrap() panics
ReadDirFails ==
    /\ pc = "traverse" /\ cur.phase = "dir"
    /\ faults' = faults \cup {<<"read_dir", cur.node>>}
    /\ Ends("panicked")
    /\ UNCHANGED << envVars, bucket, run, indexVars, walkVars, listHist,
                    walkHist, prev, codecVars >>

\* fs::read_dir(path) opens the directory: the for loop starts
ReadDirOk ==
    /\ pc = "traverse" /\ cur.phase = "dir"
    /\ tree[cur.node].kind = "dir"
    /\ \E order \in Orderings(tree[cur.node].children) :
          stack' = Append(stack, [path |-> cur.path, entries |-> order])
    /\ cur' = NoCall
    /\ UNCHANGED << envVars, bucket, pc, outcome, run, indexVars, listHist,
                    walkHist, faults, prev, codecVars >>

\* the for loop is between two calls, with the top frame's directory open
InLoop == pc = "traverse" /\ cur = NoCall /\ stack # << >>

\* a for loop that is left after its first entry
NextEntryBreaks ==
    /\ InLoop /\ Top(stack).entries # << >>
    /\ LET frame == Top(stack)
           child == Head(frame.entries)
       IN  /\ stack' = Append(Callers(stack),
                              [frame EXCEPT !.entries = << >>])
           /\ cur' = [node |-> child,
                      path |-> Join(os, frame.path, tree[child].name),
                      phase |-> "metadata", stripped |-> << >>]
           /\ visited' = Append(visited, child)
    /\ UNCHANGED << envVars, bucket, pc, outcome, run, indexVars, listHist,
                    puts, skipped, reads, faults, prev, codecVars >>

\* the next entry is read and traverse_directories is called on it
NextEntry ==
    /\ InLoop /\ Top(stack).entries # << >>
    /\ LET frame == Top(stack)
           child == Head(frame.entries)
       IN  /\ stack' = Append(Callers(stack),
                              [frame EXCEPT !.entries = Tail(frame.entries)])
           /\ cur' = [node |-> child,
                      path |-> Join(os, frame.path, tree[child].name),
                      phase |-> "metadata", stripped |-> << >>]
           /\ visited' = Append(visited, child)
    /\ UNCHANGED << envVars, bucket, pc, outcome, run, indexVars, listHist,
                    puts, skipped, reads, faults, prev, codecVars >>

\* the iterator yields an error: entry.unwrap() panics
EntryFails ==
    /\ InLoop /\ Top(stack).entries # << >>
    /\ faults' = faults \cup {<<"entry", Head(Top(stack).entries)>>}
    /\ Ends("panicked")
    /\ UNCHANGED << envVars, bucket, run, indexVars, walkVars, listHist,
                    walkHist, prev, codecVars >>

\* parse_path(directory.path())? fails: the directory's call returns
\* Err(InvalidPath) to its own caller
ParsePathFails ==
    /\ InLoop /\ Top(stack).entries # << >>
    /\ faults' = faults \cup {<<"parse_path", Head(Top(stack).entries)>>}
    /\ ReturnsErr(Callers(stack))
    /\ UNCHANGED << envVars, bucket, run, indexVars, listHist, walkHist,
                    prev, codecVars >>

\* the for loop ends: the directory's call returns Ok(())
DirDone ==
    /\ InLoop /\ Top(stack).entries = << >>
    /\ ReturnsOk(Callers(stack))
    /\ UNCHANGED << envVars, bucket, run, indexVars, listHist, walkHist,
                    faults, prev, codecVars >>

\* the operator runs the program again on the same tree and bucket
Rerun ==
    /\ pc = "done" /\ run < MaxRuns
    /\ run' = run + 1
    /\ prev' = [clean |-> faults = {} /\ outcome = "synced",
                put_count |-> Len(puts), bucket |-> bucket]
    /\ pc' = "new_client" /\ outcome' = "running"
    /\ files_by_path' = {} /\ next_token' = << >>
    /\ stack' = << >> /\ cur' = NoCall
    /\ request' = << >> /\ last_page' = NoPage
    /\ list_count' = 0 /\ truncated_pages' = 0 /\ listed' = {}
    /\ puts' = << >> /\ skipped' = << >> /\ reads' = {} /\ visited' = << >>
    /\ faults' = {}
    /\ UNCHANGED << envVars, bucket, codecVars >>

Next ==
    \/ NewClientOk \/ NewClientFails
    \/ SendListRequest \/ ListFails \/ ObjectWithoutKey \/ ReceivePage
    \/ ExpandPathOk \/ ExpandPathFails
    \/ MetadataOk \/ MetadataFails
    \/ SkipExisting \/ AcceptNew
    \/ ReadOk \/ ReadFails
    \/ UploadOk \/ UploadFails
    \/ ReadDirOk \/ ReadDirFails
    \/ NextEntry \/ EntryFails \/ ParsePathFails \/ DirDone
    \/ Rerun

Spec == Init /\ [][Next]_vars

-----------------------------------------------------------------------------
(* The call harness: traverse_directories called with a path and a root    *)
(* that need not belong together, as its signature allows                   *)

\* the `path` arguments of the call; the `root` argument is RootPath
CallPaths ==
    { RootPath,
      <<"q">>,
      <<"r", "r">>,
      <<"r", "/", InvalidUnit>> }

\* traverse_directories(path, root, existing_files, ..) is entered with an
\* index that a listing of the bucket has filled
CallInit ==
    /\ \E env \in Environments : os = env[1] /\ tree = env[2]
    /\ bucket \in Buckets(MaxObjects)
    /\ run = 1 /\ prev = NoRun
    /\ pc = "traverse" /\ outcome = "running"
    /\ files_by_path = {split_filename(k) : k \in bucket}
    /\ next_token = << >>
    /\ stack = << >>
    /\ \E path \in CallPaths :
          cur = [node |-> Root, path |-> path, phase |-> "metadata",
                 stripped |-> << >>]
    /\ request = << >> /\ last_page = NoPage
    /\ list_count = 0 /\ truncated_pages = 0 /\ listed = bucket
    /\ puts = << >> /\ skipped = << >> /\ reads = {} /\ visited = <<Root>>
    /\ faults = {}
    /\ CodecIdle

CallNext ==
    \/ MetadataOk \/ MetadataFails
    \/ RelativePathFails
    \/ SkipExisting \/ AcceptNew
    \/ ReadOk \/ ReadFails
    \/ UploadOk \/ UploadFails
    \/ ReadDirOk \/ ReadDirFails
    \/ NextEntry \/ EntryFails \/ ParsePathFails \/ DirDone

SpecCall == CallInit /\ [][CallNext]_vars

-----------------------------------------------------------------------------
(* The codec harness: split_filename applied to bounded input strings *)

RECURSIVE Strings(_)
\* every string over Alphabet of length at most n
Strings(n) ==
    IF n = 0 THEN {<< >>}
    ELSE LET shorter == Strings(n - 1)
         IN  shorter \cup {Append(s, c) : s \in shorter, c \in Alphabet}

\* a Vec<String> is never empty after split, so << >> marks "not yet computed"
NotComputed == << >>

OtherSeparator(c) == IF c = "/" THEN "\\" ELSE "/"
OtherCase(c) == IF c = "a" THEN "A" ELSE IF c = "A" THEN "a" ELSE c

InsertAt(s, i, c) == SubSeq(s, 1, i - 1) \o <<c>> \o SubSeq(s, i, Len(s))

\* inserting at position i of s puts the new character at an end of s or
\* beside a separator of s
NextToSeparator(s, i) ==
    IF i = 1 \/ i = Len(s) + 1 THEN TRUE
    ELSE IsSeparator(s[i]) \/ IsSeparator(s[i - 1])

\* the variables of the sync run, parked while the codec harness runs
SyncIdle ==
    /\ os = "unix" /\ tree = << >> /\ bucket = {}
    /\ outcome = "running" /\ run = 0
    /\ files_by_path = {} /\ next_token = << >>
    /\ stack = << >> /\ cur = NoCall
    /\ request = << >> /\ last_page = NoPage
    /\ list_count = 0 /\ truncated_pages = 0 /\ listed = {}
    /\ puts = << >> /\ skipped = << >> /\ reads = {} /\ visited = << >>
    /\ faults = {} /\ prev = NoRun

CodecInit ==
    /\ raw \in Strings(MaxLen)
    /\ other = raw
    /\ key = NotComputed /\ other_key = NotComputed
    /\ pc = "input"
    /\ SyncIdle

\* the caller passes both strings through split_filename
Normalize ==
    /\ pc = "input"
    /\ key' = split_filename(raw)
    /\ other_key' = split_filename(other)
    /\ pc' = "normalized"
    /\ UNCHANGED << raw, other >>
    /\ UNCHANGED syncVars

\* the second string gets one separator written the other way
SwapSeparator ==
    /\ pc = "input"
    /\ \E i \in 1..Len(other) :
          /\ IsSeparator(other[i])
          /\ other' = [other EXCEPT ![i] = OtherSeparator(other[i])]
    /\ UNCHANGED << raw, key, other_key, pc >>
    /\ UNCHANGED syncVars

\* the second string gets one letter in the other case
SwapCase ==
    /\ pc = "input"
    /\ \E i \in 1..Len(other) :
          /\ OtherCase(other[i]) # other[i]
          /\ other' = [other EXCEPT ![i] = OtherCase(other[i])]
    /\ UNCHANGED << raw, key, other_key, pc >>
    /\ UNCHANGED syncVars

\* the second string gets a leading, trailing or repeated separator
AddSeparator ==
    /\ pc = "input"
    /\ Len(other) <= MaxLen
    /\ \E i \in 1..(Len(other) + 1), c \in {"/", "\\"} :
          /\ NextToSeparator(other, i)
          /\ other' = InsertAt(other, i, c)
    /\ UNCHANGED << raw, key, other_key, pc >>
    /\ UNCHANGED syncVars

CodecNext == Normalize \/ SwapSeparator \/ SwapCase \/ AddSeparator

SpecCodec == CodecInit /\ [][CodecNext]_vars

-----------------------------------------------------------------------------
(* Claims about split_filename, checked under SpecCodec *)

\* the two separator characters the claims speak of
IsEitherSlash(c) == c = "/" \/ c = "\\"

RECURSIVE Squeeze(_)
\* s without its leading and trailing separators, every run of separators
\* written as one "/"
Squeeze(s) ==
    IF s = << >> THEN << >>
    ELSE IF IsEitherSlash(Head(s))
         THEN LET rest == Squeeze(Tail(s))
              IN  IF rest = << >> \/ Len(Tail(s)) = 0 \/ IsEitherSlash(Head(Tail(s)))
                  THEN rest
                  ELSE <<"/">> \o rest
         ELSE <<Head(s)>> \o Squeeze(Tail(s))

\* s and t differ only by leading, trailing and repeated separators
SameUpToExtraSeparators(s, t) ==
    LET Trim(u) == IF u # << >> /\ Head(u) = "/" THEN Tail(u) ELSE u
    IN  Trim(Squeeze(s)) = Trim(Squeeze(t))

\* C9: split_filename drops every zero-length segment, so no result holds an
\* empty segment, and two inputs that differ only by repeated, leading or
\* trailing separators ("a//b", "/a/b", "a/b/" against "a/b") get the same key.
C9_DropsEmptySegments ==
    pc = "normalized" =>
        /\ \A i \in DOMAIN key : key[i] # << >>
        /\ SameUpToExtraSeparators(raw, other) => key = other_key

\* s and t are the same string up to which separator stands at each place
SeparatorVariant(s, t) ==
    /\ Len(s) = Len(t)
    /\ \A i \in DOMAIN s : s[i] = t[i] \/ (IsEitherSlash(s[i]) /\ IsEitherSlash(t[i]))

\* s and t are the same string up to separator style and letter case, and
\* some letter differs in case
CaseVariant(s, t) ==
    /\ Len(s) = Len(t)
    /\ \A i \in DOMAIN s :
          \/ s[i] = t[i]
          \/ IsEitherSlash(s[i]) /\ IsEitherSlash(t[i])
          \/ OtherCase(s[i]) = t[i]
    /\ \E i \in DOMAIN s : s[i] # t[i] /\ OtherCase(s[i]) = t[i]

\* C10: normalisation is separator-agnostic and case-sensitive: writing any
\* separator of a string the other way leaves its key unchanged, and two
\* strings that differ in the case of a letter get different keys.
C10_SeparatorAgnosticCaseSensitive ==
    pc = "normalized" =>
        /\ SeparatorVariant(raw, other) => key = other_key
        /\ CaseVariant(raw, other) => key # other_key

\* two different spellings of a path of several segments were normalised
C10_Witness ==
    /\ pc = "normalized"
    /\ raw # other
    /\ SeparatorVariant(raw, other)
    /\ Len(key) > 1
    /\ key = other_key

-----------------------------------------------------------------------------
(* Claims about the sync run, checked under Spec *)

FaultKinds == {f[1] : f \in faults}
Files(t) == {n \in DOMAIN t : t[n].kind = "file"}
PutNodes == {puts[i].node : i \in DOMAIN puts}
\* the index the listing alone produces
ListedIndex == {split_filename(k) : k \in listed}
\* the key of the file the executing call is about
CurKey == split_filename(StripPrefix(os, cur.path, RootPath).rel)

\* the run of spec section 8 on a/x and a/b/y against an index holding a/x
\* only has ended, nothing having failed
ExampleRunEnded ==
    /\ tree = ExampleTree
    /\ ListedIndex = {<< <<"a">>, <<"x">> >>}
    /\ pc = "done" /\ faults = {}

\* C1: a visited file whose key is in the index at that moment is skipped
\* with no read, no put and the index unchanged; a file whose key is absent
\* goes on to be read, and a put request is issued exactly for the files so
\* accepted whose read succeeded.  For the tree {a/x, a/b/y} and an index
\* holding only a/x, exactly one put (a/b/y) and one skip (a/x) occur.
C1_PutIffAbsent ==
    [][ /\ (cur.phase = "file" /\ CurKey \in files_by_path) =>
              /\ skipped' = Append(skipped, cur.node)
              /\ puts' = puts /\ reads' = reads /\ bucket' = bucket
              /\ files_by_path' = files_by_path
              /\ cur'.phase = "idle"
        /\ (cur.phase = "file" /\ CurKey \notin files_by_path) =>
              /\ cur'.phase = "read" /\ cur'.node = cur.node
              /\ skipped' = skipped /\ puts' = puts
        /\ (cur.phase = "read" /\ <<"read", cur.node>> \notin faults') =>
              /\ cur'.phase = "put" /\ cur'.node = cur.node
        /\ cur.phase = "put" =>
              /\ Len(puts') = Len(puts) + 1
              /\ puts'[Len(puts')].node = cur.node
        /\ (puts' # puts /\ run' = run) => cur.phase = "put"
        /\ ExampleRunEnded' =>
              /\ Len(puts') = 1
              /\ puts'[1].key = <<"a", "/", "b", "/", "y">>
              /\ skipped' = <<3>>
      ]_vars

\* the example run has ended with its one put and its one skip
C1_Witness ==
    /\ ExampleRunEnded
    /\ outcome = "synced"
    /\ Len(puts) = 1 /\ puts[1].node = 5
    /\ skipped = <<3>>
    /\ reads = {5}

\* C2: within one run at most one put request is issued per normalised key,
\* also when two local files normalise to the same key, and none for a key
\* the listing had put into the index.
C2_AtMostOnePutPerKey ==
    /\ \A i, j \in DOMAIN puts :
          split_filename(puts[i].key) = split_filename(puts[j].key) => i = j
    /\ \A i \in DOMAIN puts : split_filename(puts[i].key) \notin ListedIndex

\* both a\x and a/x were visited against an empty listing: the first was put,
\* the second skipped
C2_Witness ==
    /\ tree = CollidingTree
    /\ listed = {}
    /\ Len(puts) = 1
    /\ Len(skipped) = 1
    /\ skipped[1] # puts[1].node

\* C3: a failed put request is contained: it does not escape the per-file
\* procedure, the traversal goes on and the run completes without aborting.
C3_UploadFailureContained ==
    FaultKinds = {"put"} => outcome \in {"running", "synced"}

\* the nodes whose read failed
UnreadableNodes == {f[2] : f \in {g \in faults : g[1] = "read"}}

\* C4: when reading a file fails, no put request is issued for it and the
\* run does not abort (nor does it with unreadable metadata besides); with
\* nothing else failing every other file is still visited and the run ends
\* with "All directories synced".
C4_ReadFailureContained ==
    /\ \A n \in UnreadableNodes : n \notin PutNodes
    /\ ("read" \in FaultKinds /\ FaultKinds \subseteq {"read", "metadata"}) =>
          /\ outcome \in {"running", "synced"}
          /\ pc = "done" => outcome = "synced"
    /\ (FaultKinds = {"read"} /\ pc = "done") => Range(visited) = DOMAIN tree

\* a/x could not be read, and a/b/y was visited and put after it
C4_Witness ==
    /\ tree = ExampleTree
    /\ pc = "done" /\ outcome = "synced"
    /\ faults = {<<"read", 3>>}
    /\ visited = <<1, 2, 3, 4, 5>>
    /\ PutNodes = {5}

\* fetch_existing_objects has returned Ok
ListingReturned ==
    /\ pc \notin {"new_client", "fetch"}
    /\ FaultKinds \cap {"client", "list", "no_key"} = {}

\* C5: against a store whose pages say "truncated" until the Nth says it is
\* not, no request failing, the builder issues exactly N list requests, and
\* the index it returns is the set of the split keys of all the entries of
\* those pages, duplicates stored once.
C5_ListsEveryPageOnce ==
    /\ (pc = "fetch" /\ request = << >>) => truncated_pages = list_count
    /\ ListingReturned =>
          /\ ~last_page.is_truncated
          /\ list_count = truncated_pages + 1
    /\ pc = "expand" => files_by_path = ListedIndex

\* two pages were listed whose keys a/x and a\x became one index entry
C5_Witness ==
    /\ pc = "expand"
    /\ list_count = 2
    /\ listed = {<<"a", "/", "x">>, <<"a", "\\", "x">>}
    /\ Cardinality(files_by_path) = 1

\* C6: if a list request fails, the index build fails and the run aborts
\* before the traversal: nothing is visited, read or put in that run.
C6_ListFailureAborts ==
    "list" \in FaultKinds =>
        /\ pc = "done" /\ outcome = "panicked"
        /\ puts = << >> /\ reads = {} /\ visited = << >> /\ skipped = << >>

\* the second list request failed, after a first page had filled the index
C6_Witness ==
    /\ "list" \in FaultKinds
    /\ list_count = 2
    /\ files_by_path # {}
    /\ pc = "done"

SecondCleanRun ==
    /\ run = 2 /\ prev.clean
    /\ faults = {}
    /\ pc \in {"traverse", "done"}
    /\ prev.bucket \subseteq listed

\* C8: a second run on the same tree, nothing failing in either run and the
\* listing returning every key put before, issues no put request.
C8_SecondRunPutsNothing ==
    SecondCleanRun => puts = << >>

\* on Windows the first run uploaded both files and the second skipped both
C8_Witness ==
    /\ SecondCleanRun
    /\ os = "windows" /\ tree = ExampleTree
    /\ prev.put_count = 2
    /\ pc = "done" /\ outcome = "synced"
    /\ Len(skipped) = 2

-----------------------------------------------------------------------------
(* Further claims about the sync run *)

\* C11: a configuration error (invalid storage class, invalid encryption, or
\* a root path that cannot be parsed) aborts the run before any I/O: in a
\* run with such an error no list request and no put request is issued.
C11_ConfigErrorBeforeIO ==
    FaultKinds \cap {"client", "root_path"} # {} =>
        /\ list_count = 0
        /\ puts = << >>

RECURSIVE Subtree(_, _)
\* node n of tree t and everything below it
Subtree(t, n) == {n} \cup UNION {Subtree(t, c) : c \in t[n].children}

\* the nodes whose metadata could not be read
NoMetadataNodes == {f[2] : f \in {g \in faults : g[1] = "metadata"}}

\* C12: when fs::metadata fails for a visited path, that path (and, for a
\* directory, everything below it) is left out with no put request, the
\* index is unchanged, and the walk goes on with the remaining siblings
\* without aborting.
C12_MetadataFailureOmitsSubtree ==
    [][ /\ (cur.phase = "metadata" /\ <<"metadata", cur.node>> \in faults') =>
              /\ files_by_path' = files_by_path
              /\ puts' = puts /\ reads' = reads /\ skipped' = skipped
              /\ bucket' = bucket
              /\ cur' = NoCall /\ stack' = stack
              /\ outcome' = IF stack = << >> THEN "synced" ELSE "running"
        /\ \A n \in NoMetadataNodes' :
              /\ Subtree(tree, n) \cap
                    (PutNodes' \cup reads' \cup Range(skipped')) = {}
              /\ Subtree(tree, n) \cap Range(visited') = {n}
        /\ (FaultKinds' = {"metadata"} /\ pc' = "done") =>
              /\ outcome' = "synced"
              /\ Range(visited') =
                    DOMAIN tree \
                       UNION {Subtree(tree, n) \ {n} : n \in NoMetadataNodes'}
      ]_vars

\* the metadata of directory a/b could not be read; its sibling a/x was
\* visited after it and handled, a/b/y never was
C12_Witness ==
    /\ tree = ExampleTree
    /\ faults = {<<"metadata", 4>>}
    /\ pc = "done" /\ outcome = "synced"
    /\ visited = <<1, 2, 4, 3>>
    /\ PutNodes \cup Range(skipped) = {3}

\* the directory a node lies in
Parent(t, n) == CHOOSE p \in DOMAIN t : n \in t[p].children

RECURSIVE RelativePath(_, _, _)
\* the path of node n below the root, as the operating system writes it
RelativePath(o, t, n) ==
    IF n = Root THEN << >>
    ELSE IF Parent(t, n) = Root THEN t[n].name
         ELSE RelativePath(o, t, Parent(t, n))
                 \o <<MainSeparator(o)>> \o t[n].name

\* the normalised key of node n
NormalKey(n) == split_filename(RelativePath(os, tree, n))

\* how often x occurs in seq
Occurrences(seq, x) == Cardinality({i \in DOMAIN seq : seq[i] = x})

\* order lists every node of t once, each node directly followed by
\* everything below it
DepthFirst(t, order) ==
    /\ Len(order) = Cardinality(DOMAIN t)
    /\ Range(order) = DOMAIN t
    /\ order[1] = Root
    /\ \A i \in DOMAIN order :
          {order[j] : j \in i..(i + Cardinality(Subtree(t, order[i])) - 1)}
             = Subtree(t, order[i])

\* what is left of the walk: the nodes not yet visited, the directories
\* being iterated, and the steps left in the executing call
WalkMeasure ==
    8 * Cardinality(DOMAIN tree \ Range(visited))
    + 2 * Len(stack)
    + CASE cur.phase = "metadata" -> 6
        [] cur.phase \in {"file", "dir"} -> 5
        [] cur.phase = "read" -> 4
        [] cur.phase = "put" -> 3
        [] OTHER -> 0

\* a step of the walk in which nothing fails
CleanStep ==
    \/ MetadataOk \/ SkipExisting \/ AcceptNew \/ ReadOk \/ UploadOk
    \/ ReadDirOk \/ NextEntry \/ DirDone

\* C13: in a run in which no filesystem or store operation fails the walk
\* terminates (a step without failure is always possible until the walk has
\* ended, and every step brings the end nearer), every regular file under
\* the root is resolved exactly once, skipped or put, in depth-first order,
\* and at the end the index holds the normalised key of every regular file.
C13_CleanWalkResolvesAll ==
    /\ [](pc = "traverse" => ENABLED CleanStep)
    /\ [][ /\ (pc = "traverse" /\ run' = run) =>
                 (pc' = "done" \/ WalkMeasure' < WalkMeasure)
           /\ ((skipped' # skipped \/ puts' # puts) /\ run' = run) =>
                 cur.node = visited[Len(visited)]
           /\ (pc' = "done" /\ faults' = {} /\ run' = run) =>
                 /\ outcome' = "synced"
                 /\ DepthFirst(tree, visited')
                 /\ \A n \in Files(tree) :
                       /\ Occurrences(skipped', n)
                             + Cardinality({i \in DOMAIN puts' :
                                               puts'[i].node = n}) = 1
                       /\ NormalKey(n) \in files_by_path'
         ]_vars

\* a run without failures over a/x and a/b/y has ended, one file skipped and
\* one put
C13_Witness ==
    /\ tree = ExampleTree
    /\ pc = "done" /\ faults = {} /\ outcome = "synced"
    /\ Len(visited) = 5
    /\ Len(skipped) = 1 /\ Len(puts) = 1
    /\ run = 1

\* the nodes whose read or put failed
FailedUploads == {f[2] : f \in {g \in faults : g[1] \in {"read", "put"}}}

\* C14: the key of an accepted file is in the index before its upload is
\* attempted and stays there when the read or the put fails: whenever a put
\* request for a key is issued the key is already in the index, and after a
\* failed upload the key is still there, so that no second put for it is
\* issued in the same run.
C14_KeyInsertedBeforeUpload ==
    /\ cur.phase \in {"read", "put"} =>
          split_filename(cur.stripped) \in files_by_path
    /\ \A i \in DOMAIN puts : split_filename(puts[i].key) \in files_by_path
    /\ \A n \in FailedUploads : NormalKey(n) \in files_by_path
    /\ \A i, j \in DOMAIN puts :
          (~puts[i].ok /\ split_filename(puts[i].key)
                             = split_filename(puts[j].key)) => i = j

\* one of a\x and a/x could not be read; the other, coming later, found the
\* key in the index and was skipped, and nothing was put
C14_Witness ==
    /\ tree = CollidingTree
    /\ listed = {}
    /\ "read" \in FaultKinds
    /\ Len(skipped) = 1
    /\ skipped[1] \notin FailedUploads
    /\ puts = << >>
    /\ pc = "done"

\* C15: the index never shrinks within a run: across every step of the
\* listing and of the traversal, skips and failed reads or uploads included,
\* the index of the next state includes the index of the current state.
C15_IndexNeverShrinks ==
    [][run' = run => files_by_path \subseteq files_by_path']_vars

\* the listing filled the index, the traversal added to it, and a read and a
\* skip have happened
C15_Witness ==
    /\ ListedIndex # {}
    /\ ListedIndex \subseteq files_by_path
    /\ ListedIndex # files_by_path
    /\ "read" \in FaultKinds
    /\ skipped # << >>

\* C16: the listing is complete before the traversal starts: no metadata is
\* read, no index lookup made and no put issued before the list request that
\* returned the last (non-truncated) page, and no list request is issued
\* once the first local path is considered.
C16_ListingBeforeTraversal ==
    [][ /\ pc' \in {"new_client", "fetch", "expand"} =>
              /\ visited' = << >> /\ cur' = NoCall /\ stack' = << >>
              /\ reads' = {} /\ skipped' = << >> /\ puts' = << >>
        /\ visited' # << >> =>
              /\ list_count' >= 1
              /\ ~last_page'.is_truncated
              /\ request' = << >>
        /\ (visited # << >> /\ run' = run) =>
              /\ list_count' = list_count
              /\ request' = request
              /\ listed' = listed
      ]_vars

\* the traversal is under way, with a put issued, after a listing of two
\* pages
C16_Witness ==
    /\ pc = "traverse"
    /\ list_count = 2
    /\ Len(visited) >= 3
    /\ puts # << >>

\* C17: the listing follows the cursor protocol: the first list request
\* carries no token, every later one carries exactly the token the page
\* before it handed out, and the loop stops at the first page that is not
\* truncated, whether or not that page hands out a token.
C17_CursorProtocol ==
    [][ /\ (request = << >> /\ request' # << >>) =>
              request'[1] = IF list_count = 0 THEN << >>
                            ELSE last_page.next_continuation_token
        /\ (request # << >> /\ request' = << >> /\ faults' = faults) =>
              pc' = IF last_page'.is_truncated THEN "fetch" ELSE "expand"
      ]_vars

\* the loop has stopped at a second page that was not truncated and yet
\* handed out a token
C17_Witness ==
    /\ pc = "expand"
    /\ list_count = 2
    /\ ~last_page.is_truncated
    /\ last_page.next_continuation_token # << >>

\* C18: the loop of fetch_existing_objects ends exactly when a page says it
\* is not truncated or the listing fails; while every page says "truncated"
\* and nothing fails, the next list request is always issued, whatever
\* their number, and the traversal does not start.
C18_LoopEndsOnlyOnLastPageOrFailure ==
    /\ []((pc = "fetch" /\ request = << >> /\ list_count < MaxListRequests)
             => ENABLED SendListRequest)
    /\ [][ /\ (pc = "fetch" /\ pc' # "fetch") =>
                 \/ /\ pc' = "expand" /\ request # << >>
                    /\ ~last_page'.is_truncated /\ faults' = faults
                 \/ /\ pc' = "done" /\ outcome' = "panicked"
                    /\ FaultKinds' \cap {"list", "no_key"} # {}
           /\ (pc = "fetch" /\ request # << >> /\ faults' = faults
                  /\ last_page'.is_truncated) =>
                 /\ pc' = "fetch"
                 /\ visited' = << >>
         ]_vars

\* every page so far said "truncated": as many requests as the model follows
\* were answered, and the loop is still running
C18_Witness ==
    /\ pc = "fetch" /\ request = << >>
    /\ list_count = MaxListRequests
    /\ truncated_pages = MaxListRequests
    /\ faults = {}
    /\ visited = << >>

\* C20: for every put request, the key sent (the path below the root with
\* every "\" replaced by "/") normalises to exactly the key that was
\* inserted into the index for that file, so that a later listing of the
\* object gives the same index entry.
C20_PutKeyNormalizesToIndexEntry ==
    [][ /\ (cur.phase = "file" /\ cur'.phase = "read") =>
              files_by_path' = files_by_path \cup
                 {split_filename(ReplaceBackslash(cur'.stripped))}
        /\ (puts' # puts /\ run' = run) =>
              /\ puts'[Len(puts')].key =
                    ReplaceBackslash(StripPrefix(os, cur.path, RootPath).rel)
              /\ split_filename(puts'[Len(puts')].key) = CurKey
              /\ split_filename(puts'[Len(puts')].key) \in files_by_path
              /\ puts'[Len(puts')].ok =>
                    puts'[Len(puts')].key \in bucket'
      ]_vars

\* on Windows a\b\y was sent as a/b/y
C20_Witness ==
    /\ os = "windows" /\ tree = ExampleTree
    /\ run = 1
    /\ puts # << >>
    /\ puts[Len(puts)].key = <<"a", "/", "b", "/", "y">>
    /\ puts[Len(puts)].ok

-----------------------------------------------------------------------------
(* Claims about one call of traverse_directories, checked under SpecCall *)

\* the files whose path below the root could not be computed
UnstrippedNodes == {f[2] : f \in {g \in faults : g[1] = "strip"}}

\* C19: if computing a file's path below the root fails (the path does not
\* lie under the root, or is not valid text), the entry is left out: nothing
\* is inserted into the index and nothing is put for it, the walk goes on,
\* and a put key is never the whole path of a file.
C19_RelativePathFailureOmits ==
    [][ /\ (cur.phase = "file" /\ ~StripPrefix(os, cur.path, RootPath).ok) =>
              /\ files_by_path' = files_by_path
              /\ puts' = puts /\ reads' = reads /\ skipped' = skipped
              /\ bucket' = bucket
              /\ cur' = NoCall /\ stack' = stack
              /\ outcome' = IF stack = << >> THEN "synced" ELSE "running"
        /\ UnstrippedNodes' \cap (PutNodes' \cup reads') = {}
        /\ puts' # puts =>
              /\ puts'[Len(puts')].key # cur.path
              /\ puts'[Len(puts')].key # ReplaceBackslash(cur.path)
      ]_vars

\* the call on "q", outside the root "r", has walked the whole tree: both
\* files were left out and nothing was put
C19_Witness ==
    /\ tree = ExampleTree
    /\ faults = {<<"strip", 3>>, <<"strip", 5>>}
    /\ pc = "done" /\ outcome = "synced"
    /\ Len(visited) = 5
    /\ puts = << >> /\ reads = {}
    /\ files_by_path = {split_filename(k) : k \in bucket}

=============================================================================
